---- MODULE Spec2Model ----
(***************************************************************************)
(* crawl4novel: the NovLove scraper's entity store (database_sqlite.py),   *)
(* sitemap discovery, detail scrape with genre handling, chapter           *)
(* reconciliation (novlove_scraper.py) and the two batch loops             *)
(* (novlove_scraper.main, update_novels.update_all_novels).                *)
(*                                                                         *)
(* The store variables hold the COMMITTED rows of the SQLite file.  Every  *)
(* session is created with autoflush=False and the default                 *)
(* expire_on_commit=True (database_sqlite.py:24): a query does not see     *)
(* pending objects, a commit expires every loaded object, a close detaches *)
(* them, and what a session never commits is rolled back when it is        *)
(* dropped.                                                                *)
(***************************************************************************)
EXTENDS Integers, Sequences, FiniteSets, TLC

\* ------------------------------------------------------------ input domains

\* Longest scraped chapter list the model draws.
MaxLen == 2

\* Novel detail-page URLs a sitemap or a caller can name.
NovelUrls == {"n1", "n2"}

\* The sitemap of the single-novel specification lists one novel at most.
OneNovel == {"n1"}

\* Chapter page URLs a chapter list can name.
ChapterUrls == {"u1", "u2"}

\* Python None / SQL NULL for string-valued fields.
None == "None"

\* Link texts of a chapter list that hold a number: "C1", "C2".
Texts == {<<"C", "1">>, <<"C", "2">>}

\* Text a successful content fetch extracts; "" is what a failed one leaves.
ContentText == "text"
EmptyContent == ""

\* Outcomes of one crawler.arun call for a chapter page.
FetchOk == "ok"
FetchFailed == "failed"
FetchRaised == "raised"

\* ------------------------------------------------------------------- state

VARIABLES
    websites,      \* committed rows of table websites (sequence index = id)
    novels,        \* committed rows of table novels
    genres,        \* committed rows of table genres
    novel_genres,  \* committed rows of table novel_genres: <<novel_id, genre_id>>
    chapters,      \* committed rows of table chapters
    caller,        \* the loop that calls scrape_chapter_list_and_content
    cp,            \* the running scrape_chapter_list_and_content call
    obs,           \* observations of the current and the previous pass
    runner,        \* main()'s scrape-details command
    last,          \* what the last scrape_novel_details_and_chapters call did
    disc,          \* a sitemap command that runs beside the other commands
    wx             \* wuxiaworld: table novel of sql_app.db and the state of one run

vars == <<websites, novels, genres, novel_genres, chapters, caller, cp, obs,
          runner, last, disc, wx>>

chapVars == <<caller, cp, obs>>
detVars == <<runner, last>>

\* --------------------------------------------------------- pure helpers

Max(a, b) == IF a > b THEN a ELSE b

RECURSIVE SeqMax(_)
SeqMax(s) == IF s = <<>> THEN 0 ELSE Max(Head(s), SeqMax(Tail(s)))

RECURSIVE Perms(_)
\* every order in which a Python set can be iterated
Perms(S) ==
    IF S = {} THEN {<<>>}
    ELSE UNION {{<<x>> \o p : p \in Perms(S \ {x})} : x \in S}

\* dict.get(key, default)
Get(d, k, default) == IF k \in DOMAIN d THEN d[k] ELSE default

\* chapter_number = None
NoNumber == -1

DigitVal == [c \in {"0", "1", "2", "3", "4", "5", "6", "7", "8", "9"} |->
               CASE c = "0" -> 0 [] c = "1" -> 1 [] c = "2" -> 2 [] c = "3" -> 3
                 [] c = "4" -> 4 [] c = "5" -> 5 [] c = "6" -> 6 [] c = "7" -> 7
                 [] c = "8" -> 8 [] c = "9" -> 9]

IsDigit(c) == c \in DOMAIN DigitVal

RECURSIVE ToInt(_)
\* int() of a string of digits, most significant first
ToInt(ds) ==
    IF ds = <<>> THEN 0
    ELSE 10 * ToInt(SubSeq(ds, 1, Len(ds) - 1)) + DigitVal[ds[Len(ds)]]

\* Variant of ParseChapterNumber: a text without a digit counts as 0.
ParseChapterNumberZero(text) == ToInt(SelectSeq(text, IsDigit))

\* int(''.join(filter(str.isdigit, text))), None when int() raises
ParseChapterNumber(text) ==
    LET ds == SelectSeq(text, IsDigit)
    IN IF ds = <<>> THEN NoNumber ELSE ToInt(ds)

\* The three fields the chapter loop reads of one scraped record.  The
\* chapters_schema takes chapter_title and chapter_number from the same
\* "a" text, so a record carries one text under both keys.
NoTitle == <<"N", "o", " ", "T", "i", "t", "l", "e">>
ChapterUrlOf(rec) == Get(rec, "chapter_url", None)
ChapterTitleOf(rec) == Get(rec, "chapter_title", NoTitle)
ChapterNumberOf(rec) == ParseChapterNumber(Get(rec, "chapter_number", <<>>))

\* Scraped records: a link with its URL and a numbered text, a link whose
\* text has no digit, a link without href, and a link without text.
Records ==
    {[chapter_url |-> u, chapter_title |-> t, chapter_number |-> t] :
        u \in ChapterUrls, t \in Texts}
    \cup {[chapter_url |-> "u1", chapter_title |-> <<"P">>, chapter_number |-> <<"P">>]}
    \cup {[chapter_title |-> <<"C", "2">>, chapter_number |-> <<"C", "2">>]}
    \cup {[chapter_url |-> "u1"]}

ChapterLists == UNION {[1..n -> Records] : n \in 0..MaxLen}

\* The chapter lists of the batch specification: well-formed links only.
BatchRecords ==
    {[chapter_url |-> "u1", chapter_title |-> <<"C", "1">>, chapter_number |-> <<"C", "1">>],
     [chapter_url |-> "u2", chapter_title |-> <<"C", "2">>, chapter_number |-> <<"C", "2">>]}

BatchLists == UNION {[1..n -> BatchRecords] : n \in 0..MaxLen}

\* ------------------------------------------------------------ the store

\* Variant of NovelByUrl: the lookup finds no row.
NovelByUrlNone(ns, url) == 0

\* Variant of NovelByUrl: the first row of the table, whatever its source_url.
NovelByUrlFirst(ns, url) == IF ns = <<>> THEN 0 ELSE 1

\* db.query(Novel).filter(Novel.source_url == url).first(): the row id, 0 for None
NovelByUrl(ns, url) ==
    LET hit == {i \in DOMAIN ns : ns[i].source_url = url}
    IN IF hit = {} THEN 0 ELSE CHOOSE i \in hit : \A j \in hit : i <= j

\* db.query(Website).filter(Website.name == "NovLove").first()
WebsiteByName(ws, name) ==
    LET hit == {i \in DOMAIN ws : ws[i].name = name}
    IN IF hit = {} THEN 0 ELSE CHOOSE i \in hit : \A j \in hit : i <= j

\* db.query(Chapter).filter(Chapter.url == url).first(); url == None is
\* rendered IS NULL and the column is NOT NULL
ChapterByUrl(chs, url) ==
    LET hit == {i \in DOMAIN chs : url # None /\ chs[i].url = url}
    IN IF hit = {} THEN 0 ELSE CHOOSE i \in hit : \A j \in hit : i <= j

\* db.query(func.max(Chapter.chapter_number)).filter(novel_id == id).scalar() or 0
\* over the rows the connection sees: pending objects are not flushed
MaxChapterInDb(chs, nid) ==
    LET nums == {chs[i].chapter_number : i \in {j \in DOMAIN chs :
                    chs[j].novel_id = nid /\ chs[j].chapter_number # NoNumber}}
    IN IF nums = {} THEN 0 ELSE CHOOSE n \in nums : \A m \in nums : n >= m

\* The INSERT of a chapters row passes url's NOT NULL and UNIQUE constraints.
ChapterInsertOk(chs, row) ==
    /\ row.url # None
    /\ \A i \in DOMAIN chs : chs[i].url # row.url

\* Chapter(novel_id=..., title=..., chapter_number=..., url=..., content=...)
NewChapter(nid, rec, content) ==
    [novel_id |-> nid, title |-> ChapterTitleOf(rec),
     chapter_number |-> ChapterNumberOf(rec), url |-> ChapterUrlOf(rec),
     content |-> content]

\* Novel(title="Unknown", source_url=..., source_website_id=...): the
\* unset columns are NULL, the two counters take their default 0.
StubNovel(url, wid) ==
    [source_url |-> url, source_website_id |-> wid, author |-> None,
     is_completed |-> FALSE, avg_rating |-> NoNumber,
     latest_chapter_number |-> 0, current_last_chapter_number |-> 0]

NovLove == [name |-> "NovLove", url |-> "https://novlove.com"]

\* The INSERT of a websites row passes the UNIQUE constraints of name and url.
WebsiteInsertOk(ws, row) ==
    \A i \in DOMAIN ws : ws[i].name # row.name /\ ws[i].url # row.url

\* The INSERT of a novels row passes source_url's UNIQUE constraint.
NovelInsertOk(ns, row) ==
    \A i \in DOMAIN ns : ns[i].source_url # row.source_url

\* get-or-create of the NovLove Website row: db.add, db.commit
WebsiteCommitFails(ws) ==
    WebsiteByName(ws, "NovLove") = 0 /\ ~WebsiteInsertOk(ws, NovLove)

ResolveWebsite(ws) ==
    IF WebsiteByName(ws, "NovLove") = 0 /\ WebsiteInsertOk(ws, NovLove)
    THEN Append(ws, NovLove) ELSE ws

RECURSIVE AddStubs(_, _, _)
\* the loop over novel_urls: a stub for each URL no committed row has
AddStubs(ns, order, wid) ==
    IF order = <<>> THEN ns
    ELSE AddStubs(IF NovelByUrl(ns, Head(order)) = 0
                  THEN Append(ns, StubNovel(Head(order), wid)) ELSE ns,
                  Tail(order), wid)

\* ------------------------------------------------------------------ Init

IdleCaller == [kind |-> "none", pc |-> "idle", todo |-> <<>>]
IdlePass ==
    [pc |-> "idle", novel_id |-> 0, rest |-> <<>>, latest |-> 0,
     new_count |-> 0, attached |-> FALSE]
NoObs ==
    [url |-> None, list |-> <<>>, fetch |-> "none", repeat |-> FALSE,
     again |-> FALSE, grown |-> FALSE, clean |-> FALSE, rows0 |-> 0,
     last0 |-> 0]

IdleRunner == [pc |-> "idle", mode |-> "none", todo |-> <<>>, failed |-> {}]
NoLast ==
    [url |-> None, novel_id |-> 0, outcome |-> "none", names |-> {},
     found |-> FALSE]

IdleDisc ==
    [pc |-> "idle", kind |-> "none", outcome |-> "none", result |-> {},
     pending |-> <<>>]

\* wuxiaworld_scraper: table novel after init_db, no run under way
IdleWuxia ==
    [pc |-> "idle", table |-> <<>>, seen_urls |-> {}, printed |-> <<>>,
     scrolls |-> 0]

Init ==
    /\ websites = <<>>
    /\ novels = <<>>
    /\ genres = <<>>
    /\ novel_genres = {}
    /\ chapters = <<>>
    /\ caller = IdleCaller
    /\ cp = IdlePass
    /\ obs = NoObs
    /\ runner = IdleRunner
    /\ last = NoLast
    /\ disc = IdleDisc
    /\ wx = IdleWuxia

\* no command is running
Quiet == caller.pc # "loop" /\ cp.pc = "idle" /\ runner.pc = "idle"

\* ------------------------------------------------- scrape_novel_urls_command

\* the pending rows of one flush pass source_url's UNIQUE constraint
RECURSIVE FlushNovelsOk(_, _)
FlushNovelsOk(ns, pending) ==
    \/ pending = <<>>
    \/ /\ NovelInsertOk(ns, Head(pending))
       /\ FlushNovelsOk(Append(ns, Head(pending)), Tail(pending))

\* The sitemap is fetched and parsed after the Website row is committed; a
\* RequestException or a ParseError ends the command with only that row, and
\* so does a commit that fails: the stubs are committed together or not at all.
Discover(outcome, order) ==
    /\ Quiet
    /\ websites' = ResolveWebsite(websites)
    /\ LET stubbed == AddStubs(novels, order, WebsiteByName(websites', "NovLove"))
       IN novels' = IF /\ outcome = "ok"
                       /\ ~WebsiteCommitFails(websites)
                       /\ FlushNovelsOk(novels,
                              SubSeq(stubbed, Len(novels) + 1, Len(stubbed)))
                    THEN stubbed ELSE novels
    /\ UNCHANGED <<genres, novel_genres, chapters, chapVars, detVars, disc, wx>>

\* Variant of SitemapUrls: the URLs are there whatever the fetch did.
SitemapUrlsAnyway(outcome, order) == order

\* requests.get, raise_for_status, ET.fromstring and the loop over the url
\* elements: the matching URLs in the order the set is iterated; a
\* RequestException or a ParseError leaves the loop unreached
SitemapUrls(outcome, order) == IF outcome = "ok" THEN order ELSE <<>>

\* get_genres_from_sitemap: list(genres), or [] from either except clause
GetGenresFromSitemap(outcome, names) == IF outcome = "ok" THEN names ELSE <<>>

\* scrape_novel_urls_command beside other commands, up to its db.commit():
\* the Website row is resolved and committed, the sitemap read, and a stub
\* added to the session for every URL the store does not hold now.
DiscoverBegin(outcome, order) ==
    /\ disc.pc = "idle"
    /\ websites' = ResolveWebsite(websites)
    /\ LET urls == SitemapUrls(outcome, order)
           stubbed == AddStubs(novels, urls, WebsiteByName(websites', "NovLove"))
           found == {urls[i] : i \in DOMAIN urls}
       IN disc' =
            IF WebsiteCommitFails(websites)
            THEN [IdleDisc EXCEPT !.pc = "done", !.kind = "novel-urls",
                                  !.outcome = "integrity_error"]
            ELSE IF urls = <<>>
            THEN [IdleDisc EXCEPT !.pc = "done", !.kind = "novel-urls",
                                  !.outcome = outcome]
            ELSE [pc |-> "commit", kind |-> "novel-urls", outcome |-> outcome,
                  result |-> found,
                  pending |-> SubSeq(stubbed, Len(novels) + 1, Len(stubbed))]
    /\ UNCHANGED <<novels, genres, novel_genres, chapters, chapVars, detVars, wx>>

\* db.commit() of the stubs: an INSERT that fails on source_url's UNIQUE
\* constraint raises IntegrityError, which neither except clause names
DiscoverCommit ==
    /\ disc.pc = "commit"
    /\ IF FlushNovelsOk(novels, disc.pending)
       THEN /\ novels' = novels \o disc.pending
            /\ disc' = [disc EXCEPT !.pc = "done", !.pending = <<>>]
       ELSE /\ novels' = novels
            /\ disc' = [disc EXCEPT !.pc = "done", !.pending = <<>>,
                                    !.outcome = "integrity_error"]
    /\ UNCHANGED <<websites, genres, novel_genres, chapters, chapVars, detVars, wx>>

\* get_genres_from_sitemap(sitemap_url) is called
ListGenres(outcome, names) ==
    /\ disc.pc = "idle"
    /\ disc' = [IdleDisc EXCEPT
                  !.pc = "done", !.kind = "genres", !.outcome = outcome,
                  !.result = LET l == GetGenresFromSitemap(outcome, names)
                             IN {l[i] : i \in DOMAIN l}]
    /\ UNCHANGED <<websites, novels, genres, novel_genres, chapters, chapVars, detVars, wx>>

\* the sitemap command is over
DiscoverExit ==
    /\ disc.pc = "done"
    /\ disc' = IdleDisc
    /\ UNCHANGED <<websites, novels, genres, novel_genres, chapters, chapVars, detVars, wx>>

\* ------------------------------------- scrape_chapter_list_and_content

\* number of chapters rows of one novel
RowsOf(chs, nid) == Cardinality({i \in DOMAIN chs : chs[i].novel_id = nid})

\* The call starts: the chapter list is fetched and parsed (a failed fetch or
\* unparseable JSON leaves chapters = []), the session is opened and the
\* novel is looked up.  No novel row: the call returns at once.
PassStart(list) ==
    /\ caller.pc = "loop" /\ cp.pc = "idle" /\ caller.todo # <<>>
    /\ LET url == Head(caller.todo)
           nid == NovelByUrl(novels, url)
       IN /\ cp' = IF nid = 0 \/ list = <<>>
                   THEN [IdlePass EXCEPT !.pc = "returned", !.novel_id = nid]
                   ELSE [pc |-> "loop", novel_id |-> nid, rest |-> list,
                         latest |-> 0, new_count |-> 0, attached |-> TRUE]
          /\ obs' = [url |-> url, list |-> list, fetch |-> "none",
                     repeat |-> obs.url = url /\ obs.list = list /\ obs.clean,
                     again |-> obs.url = url /\ obs.list = list,
                     grown |-> /\ obs.url = url
                               /\ \A i \in DOMAIN obs.list :
                                     \E j \in DOMAIN list : list[j] = obs.list[i],
                     clean |-> TRUE,
                     rows0 |-> RowsOf(chapters, nid),
                     last0 |-> IF nid = 0 THEN 0
                               ELSE novels[nid].current_last_chapter_number]
    /\ UNCHANGED <<websites, novels, genres, novel_genres, chapters, caller, detVars, disc, wx>>

\* The crawler raises while it starts or fetches the chapter list: nothing
\* in the function catches it.
PassListRaises ==
    /\ caller.pc = "loop" /\ cp.pc = "idle" /\ caller.todo # <<>>
    /\ cp' = [IdlePass EXCEPT !.pc = "raised"]
    /\ obs' = [NoObs EXCEPT !.url = Head(caller.todo), !.fetch = FetchRaised]
    /\ UNCHANGED <<websites, novels, genres, novel_genres, chapters, caller, detVars, disc, wx>>

\* Variant of KnownChapter: the known chapter's row takes the scraped title.
KnownChapterUpdated(chs, rec) ==
    [chs EXCEPT ![ChapterByUrl(chs, ChapterUrlOf(rec))].title = ChapterTitleOf(rec)]

\* if existing_chapter: continue -- the stored rows stay as they are
KnownChapter(chs, rec) == chs

\* Variant of InsertChapter: the row is stored whatever the constraints say.
InsertChapterAnyway(chs, row) == Append(chs, row)

\* db.add(new_chapter) ... db.commit(): the flush inserts the row, or the
\* INSERT fails on a constraint and db.rollback() discards it
InsertChapter(chs, row) ==
    IF ChapterInsertOk(chs, row) THEN Append(chs, row) ELSE chs

\* The counters committed with a new chapter: latest_chapter_number is the
\* running maximum so far, current_last_chapter_number the aggregate over
\* the rows the query sees, which the pending chapter is not among.
CountersAtCommit(n, latest, max_in_db) ==
    [n EXCEPT !.latest_chapter_number = latest,
              !.current_last_chapter_number = max_in_db]

\* after this record: the loop goes on, or has run out and the call returns
Advance(p) ==
    [p EXCEPT !.rest = Tail(p.rest),
              !.pc = IF Tail(p.rest) = <<>> THEN "returned" ELSE "loop"]

\* One iteration of "for chapter_data in chapters", with the outcome of the
\* content fetch it may await.
ChapterStep(outcome) ==
    /\ cp.pc = "loop"
    /\ LET rec == Head(cp.rest)
           url == ChapterUrlOf(rec)
           num == ChapterNumberOf(rec)
           latest == Max(cp.latest, num)
           seen == [cp EXCEPT !.latest = latest]
           content == IF outcome = FetchOk THEN ContentText ELSE EmptyContent
           row == NewChapter(cp.novel_id, rec, content)
       IN IF num = NoNumber
          THEN \* "Skipping chapter with invalid number"
               /\ outcome = FetchOk
               /\ cp' = Advance(cp)
               /\ obs' = [obs EXCEPT !.fetch = "none"]
               /\ UNCHANGED <<novels, chapters>>
          ELSE IF ChapterByUrl(chapters, url) # 0
          THEN /\ outcome = FetchOk
               /\ cp' = Advance(seen)
               /\ obs' = [obs EXCEPT !.fetch = "none"]
               /\ chapters' = KnownChapter(chapters, rec)
               /\ UNCHANGED novels
          ELSE \* a new chapter: its page is fetched; a fetch of None cannot succeed
               /\ url = None => outcome # FetchOk
               /\ obs' = [obs EXCEPT !.fetch = outcome,
                                     !.clean = obs.clean /\ outcome = FetchOk]
               /\ IF outcome = FetchRaised \/ ~cp.attached
                  THEN \* crawler.arun raises, or novel.id is read of the
                       \* expired, detached novel: DetachedInstanceError
                       /\ cp' = [seen EXCEPT !.pc = "raised"]
                       /\ UNCHANGED <<novels, chapters>>
                  ELSE \* commit, close, then novel.title raises inside the
                       \* try: caught, and the loop goes on with a detached novel
                       /\ chapters' = InsertChapter(chapters, row)
                       /\ novels' =
                            IF ChapterInsertOk(chapters, row)
                            THEN [novels EXCEPT ![cp.novel_id] =
                                    CountersAtCommit(@, latest,
                                        MaxChapterInDb(chapters, cp.novel_id))]
                            ELSE novels
                       /\ cp' = Advance([seen EXCEPT
                                    !.new_count = @ + 1, !.attached = FALSE])
    /\ UNCHANGED <<websites, genres, novel_genres, caller, detVars, disc, wx>>

\* ------------------------------------------------ the callers of the pass

\* update_novels.update_all_novels: every novel of the table, in turn
UpdateAllStart ==
    /\ Quiet
    /\ caller' = IF novels = <<>>
                 THEN IdleCaller
                 ELSE [kind |-> "update_all", pc |-> "loop",
                       todo |-> [i \in DOMAIN novels |-> novels[i].source_url]]
    /\ UNCHANGED <<websites, novels, genres, novel_genres, chapters, cp, obs, detVars, disc, wx>>

\* scrape_chapter_list_and_content(novel_url) run for one URL, once, or a
\* second time after the first run ended, however it ended
DirectCall(url, times) ==
    /\ Quiet
    /\ caller' = [kind |-> "direct", pc |-> "loop", todo |-> [i \in 1..times |-> url]]
    /\ UNCHANGED <<websites, novels, genres, novel_genres, chapters, cp, obs, detVars, disc, wx>>

\* The awaited call is over.  It returned: the loop takes the next novel.  It
\* raised: update_all_novels has try/finally and no except, the exception
\* leaves the loop with the remaining novels not called.
CallerNext ==
    /\ caller.pc = "loop" /\ cp.pc \in {"returned", "raised"}
    /\ caller' = IF (cp.pc = "raised" /\ caller.kind = "update_all")
                      \/ Tail(caller.todo) = <<>>
                 THEN IdleCaller
                 ELSE [caller EXCEPT !.todo = Tail(@)]
    /\ cp' = IdlePass
    /\ obs' = IF caller'.pc = "loop"
              THEN [NoObs EXCEPT !.url = obs.url, !.list = obs.list,
                                 !.clean = obs.clean]
              ELSE NoObs
    /\ UNCHANGED <<websites, novels, genres, novel_genres, chapters, detVars, disc, wx>>

\* ------------------------------------------------------------ genre names

\* Genre names are strings of characters; "E'" and "e'" stand for the
\* letters E-acute in upper and lower case.
GenreNames == {<<"F">>, <<"f">>, <<"E'">>, <<"e'">>}

\* Longest genre list the model draws from the page's HTML.
MaxGenres == 2

GenreLists == UNION {[1..n -> GenreNames] : n \in 0..MaxGenres}

\* What the page's HTML holds of genres: no "Genre:" item at all, or the
\* item with the texts of its links, which may be none.
NoGenreItem == [found |-> FALSE, links |-> <<>>]
GenreItems == {NoGenreItem} \cup {[found |-> TRUE, links |-> l] : l \in GenreLists}

\* genres_from_html: [] unless the item is found, then its link texts
GenresFromHtml(page) == IF page.found THEN page.links ELSE <<>>

\* Values of the extracted "genres" text: "F,f", " e', " and " ,".
GenreStrings ==
    {<<"F", ",", "f">>, <<" ", "e'", ",", " ">>, <<" ", ",">>}

\* Values of the extracted "avg_rating" attribute: "4.5" and "x".
RatingTexts == {<<"4", ".", "5">>, <<"x">>}

Authors == {"A"}

\* genre_name.lower(): Python folds the case of every letter
PyLowerChar(c) == CASE c = "F" -> "f" [] c = "E'" -> "e'" [] OTHER -> c
PyLower(name) == [i \in DOMAIN name |-> PyLowerChar(name[i])]

\* func.lower(Genre.name): SQLite's lower() folds ASCII letters only
SqlLowerChar(c) == CASE c = "F" -> "f" [] OTHER -> c
SqlLower(name) == [i \in DOMAIN name |-> SqlLowerChar(name[i])]

RECURSIVE Split(_, _)
\* str.split(sep)
Split(str, sep) ==
    LET at == {i \in DOMAIN str : str[i] = sep}
    IN IF at = {} THEN <<str>>
       ELSE LET i == CHOOSE k \in at : \A m \in at : k <= m
            IN <<SubSeq(str, 1, i - 1)>> \o Split(SubSeq(str, i + 1, Len(str)), sep)

RECURSIVE Strip(_)
\* str.strip()
Strip(str) ==
    IF str = <<>> THEN str
    ELSE IF Head(str) = " " THEN Strip(Tail(str))
    ELSE IF str[Len(str)] = " " THEN Strip(SubSeq(str, 1, Len(str) - 1))
    ELSE str

\* [g.strip() for g in genres_str.split(",") if g.strip()]
GenreNamesOfString(str) ==
    LET parts == Split(str, ",")
        NonEmpty(x) == Strip(x) # <<>>
        kept == SelectSeq(parts, NonEmpty)
    IN [i \in DOMAIN kept |-> Strip(kept[i])]

\* The genre names the scrape goes by: those of the HTML when there are any,
\* else those of the extracted "genres" text when it is not empty.
ScrapedGenreNames(det, html) ==
    IF html # <<>> THEN html
    ELSE IF Get(det, "genres", <<>>) # <<>>
         THEN GenreNamesOfString(det["genres"]) ELSE <<>>

\* float() accepts the text
IsFloat(tok) ==
    \/ tok # <<>> /\ \A i \in DOMAIN tok : IsDigit(tok[i])
    \/ Len(tok) = 3 /\ IsDigit(tok[1]) /\ tok[2] = "." /\ IsDigit(tok[3])

\* float(tok), in tenths
FloatTenths(tok) ==
    IF Len(tok) = 3 /\ tok[2] = "."
    THEN 10 * DigitVal[tok[1]] + DigitVal[tok[3]]
    ELSE 10 * ToInt(tok)

\* float(extracted.get("avg_rating") or fallback) raises: ValueError on a
\* text that is no number, TypeError on float(None)
RatingRaises(det, fallback) ==
    IF Get(det, "avg_rating", <<>>) # <<>>
    THEN ~IsFloat(det["avg_rating"]) ELSE fallback = NoNumber

RatingValue(det, fallback) ==
    IF Get(det, "avg_rating", <<>>) # <<>>
    THEN FloatTenths(det["avg_rating"]) ELSE fallback

\* the extracted details: a key is there when the page gave the field
DetailsDict(a, r, g) ==
    [k \in (IF a = None THEN {} ELSE {"author"})
           \cup (IF r = <<>> THEN {} ELSE {"avg_rating"})
           \cup (IF g = <<>> THEN {} ELSE {"genres"}) |->
        CASE k = "author" -> <<a>> [] k = "avg_rating" -> r [] k = "genres" -> g]

\* the status line of the page, when it has one
Statuses == {"Completed", "Ongoing"}

\* the extracted details of a page with or without a status line
DetailsWithStatus(a, r, g, c) ==
    LET det == DetailsDict(a, r, g)
    IN [k \in DOMAIN det \cup (IF c = None THEN {} ELSE {"is_completed"}) |->
           IF k = "is_completed" THEN <<c>> ELSE det[k]]

AuthorOf(det) == IF "author" \in DOMAIN det THEN det["author"][1] ELSE None

\* extracted_novel_details.get("is_completed") == "Completed"
IsCompleted(det) == Get(det, "is_completed", <<None>>) = <<"Completed">>

\* db.query(Genre).filter(func.lower(Genre.name) == genre_name.lower()).first()
GenreByName(gs, name) ==
    LET hit == {i \in DOMAIN gs : SqlLower(gs[i].name) = PyLower(name)}
    IN IF hit = {} THEN 0 ELSE CHOOSE i \in hit : \A j \in hit : i <= j

\* The INSERT of a genres row passes name's UNIQUE constraint.
GenreInsertOk(gs, name) == \A i \in DOMAIN gs : gs[i].name # name

\* Variant of Associate: the genre replaces the novel's genres.
AssociateOnly(mine, g) == {g}

\* if genre not in novel.genres: novel.genres.append(genre)
Associate(mine, g) == mine \cup {g}

RECURSIVE LinkGenres(_, _, _)
\* The loop over genre_names in the session: the genres table with the rows
\* flushed so far, the novel's genres, and ok = FALSE when a flush failed.
LinkGenres(gs, mine, names) ==
    IF names = <<>> THEN [genres |-> gs, mine |-> mine, ok |-> TRUE]
    ELSE LET g == GenreByName(gs, Head(names))
         IN IF g # 0 THEN LinkGenres(gs, Associate(mine, g), Tail(names))
            ELSE IF GenreInsertOk(gs, Head(names))
            THEN LinkGenres(Append(gs, [name |-> Head(names)]),
                            Associate(mine, Len(gs) + 1), Tail(names))
            ELSE [genres |-> gs, mine |-> mine, ok |-> FALSE]

\* Variant of HandleGenres: an empty list clears the novel's genres.
HandleGenresClearing(gs, mine, names) ==
    IF names = <<>> THEN [genres |-> gs, mine |-> {}, ok |-> TRUE]
    ELSE LinkGenres(gs, mine, names)

\* if genre_names: the loop runs; an empty list leaves the session as it was
HandleGenres(gs, mine, names) ==
    IF names = <<>> THEN [genres |-> gs, mine |-> mine, ok |-> TRUE]
    ELSE LinkGenres(gs, mine, names)

RECURSIVE SaveGenreRows(_, _)
\* save_genres_to_db: each new name is committed by itself; a commit that
\* fails raises out of the loop
SaveGenreRows(gs, names) ==
    IF names = <<>> THEN gs
    ELSE IF GenreByName(gs, Head(names)) # 0 THEN SaveGenreRows(gs, Tail(names))
    ELSE IF GenreInsertOk(gs, Head(names))
    THEN SaveGenreRows(Append(gs, [name |-> Head(names)]), Tail(names))
    ELSE gs

SaveGenres(names) ==
    /\ Quiet
    /\ genres' = SaveGenreRows(genres, names)
    /\ UNCHANGED <<websites, novels, novel_genres, chapters, chapVars, detVars, disc, wx>>

\* -------------------------------------- scrape_novel_details_and_chapters

\* the genres a novel is associated with
GenresOf(ng, nid) == {p[2] : p \in {q \in ng : q[1] = nid}}

\* Novel(...) of the details, for a source_url no row has
NewNovel(url, wid, det) ==
    [source_url |-> url, source_website_id |-> wid, author |-> AuthorOf(det),
     is_completed |-> IsCompleted(det), avg_rating |-> RatingValue(det, 0),
     latest_chapter_number |-> 0, current_last_chapter_number |-> 0]

\* Variant of UpdatedNovel: the row is filled as a new Novel(...) is.
UpdatedNovelAnew(n, det) ==
    [n EXCEPT !.author = AuthorOf(det), !.avg_rating = RatingValue(det, @),
              !.latest_chapter_number = 0, !.current_last_chapter_number = 0]

\* "Update existing novel details"
UpdatedNovel(n, det) ==
    [n EXCEPT !.author = IF "author" \in DOMAIN det THEN AuthorOf(det) ELSE @,
              !.is_completed = IsCompleted(det),
              !.avg_rating = RatingValue(det, @)]

\* if extracted_novel_details.get("author"): ...; db.commit()
Commits(det) == AuthorOf(det) # None

\* One call.  raised: the crawler raised before any row was read.  The call
\* ends at the first statement that raises; what its session had not
\* committed by then, or by its return, is rolled back.
DetailScrape(url, raised, det, page) ==
    LET nid0 == NovelByUrl(novels, url)
        isNew == nid0 = 0
        ws1 == IF isNew THEN ResolveWebsite(websites) ELSE websites
        wsFails == isNew /\ WebsiteCommitFails(websites)
        wid == WebsiteByName(ws1, "NovLove")
        floatFails == RatingRaises(det, IF isNew THEN 0 ELSE novels[nid0].avg_rating)
        row == IF isNew THEN NewNovel(url, wid, det) ELSE UpdatedNovel(novels[nid0], det)
        novelFails == isNew /\ ~NovelInsertOk(novels, row)
        nid == IF isNew THEN Len(novels) + 1 ELSE nid0
        names == ScrapedGenreNames(det, GenresFromHtml(page))
        linked == HandleGenres(genres, GenresOf(novel_genres, nid), names)
        seen == [url |-> url, novel_id |-> 0, outcome |-> "none",
                 names |-> {names[i] : i \in DOMAIN names},
                 found |-> page.found]
    IN IF raised
       THEN /\ last' = [seen EXCEPT !.outcome = "fetch_raised"]
            /\ UNCHANGED <<websites, novels, genres, novel_genres>>
       ELSE IF wsFails \/ floatFails \/ novelFails
       THEN /\ last' = [seen EXCEPT
                          !.outcome = IF wsFails \/ ~floatFails
                                      THEN "integrity_error" ELSE "float_error",
                          !.novel_id = IF isNew THEN 0 ELSE nid0]
            /\ websites' = ws1
            /\ UNCHANGED <<novels, genres, novel_genres>>
       ELSE IF ~linked.ok
       THEN /\ last' = [seen EXCEPT !.outcome = "integrity_error", !.novel_id = nid]
            /\ websites' = ws1
            /\ UNCHANGED <<novels, genres, novel_genres>>
       ELSE IF Commits(det)
       THEN /\ last' = [seen EXCEPT !.outcome = "committed", !.novel_id = nid]
            /\ websites' = ws1
            /\ novels' = IF isNew THEN Append(novels, row)
                         ELSE [novels EXCEPT ![nid] = row]
            /\ genres' = linked.genres
            /\ novel_genres' = {p \in novel_genres : p[1] # nid}
                                 \cup {<<nid, g>> : g \in linked.mine}
       ELSE /\ last' = [seen EXCEPT !.outcome = "dropped", !.novel_id = nid]
            /\ websites' = ws1
            /\ UNCHANGED <<novels, genres, novel_genres>>

\* the call raised
Raised(outcome) == outcome \in {"fetch_raised", "integrity_error", "float_error"}

\* ------------------------------------------------- main: scrape-details

\* the rows db.query(Novel) selects, by id: all of them, or an id range
Selected(ns, from, upto) ==
    LET ids == {i \in DOMAIN ns : i >= from /\ i <= upto}
        RECURSIVE Urls(_)
        Urls(k) == IF k > Len(ns) THEN <<>>
                   ELSE (IF k \in ids THEN <<ns[k].source_url>> ELSE <<>>) \o Urls(k + 1)
    IN Urls(1)

\* --novel-url: one call, outside any try
RunSingle(url) ==
    /\ Quiet
    /\ runner' = [pc |-> "loop", mode |-> "single", todo |-> <<url>>, failed |-> {}]
    /\ UNCHANGED <<websites, novels, genres, novel_genres, chapters, chapVars, last, disc, wx>>

\* --all, or --start-id with or without --end-id; no novel selected: the
\* command prints and returns
RunMany(mode, from, upto) ==
    /\ Quiet
    /\ mode = "all" => from = 1 /\ upto = Len(novels)
    /\ runner' = IF Selected(novels, from, upto) = <<>>
                 THEN [IdleRunner EXCEPT !.pc = "done", !.mode = mode]
                 ELSE [pc |-> "loop", mode |-> mode,
                       todo |-> Selected(novels, from, upto), failed |-> {}]
    /\ UNCHANGED <<websites, novels, genres, novel_genres, chapters, chapVars, last, disc, wx>>

\* Variant of AfterAttempt: an exception ends the loop.
AfterAttemptAborting(mode, todo, raised) ==
    IF mode = "single" \/ raised THEN <<>> ELSE Tail(todo)

\* What is left to do after one call.  In the loops of --all and --start-id
\* the call is inside try/except Exception: the loop goes on.
AfterAttempt(mode, todo, raised) ==
    IF mode = "single" THEN <<>> ELSE Tail(todo)

RunnerStep(raised, det, page) ==
    /\ runner.pc = "loop"
    /\ DetailScrape(Head(runner.todo), raised, det, page)
    /\ LET left == AfterAttempt(runner.mode, runner.todo, Raised(last'.outcome))
       IN runner' = [runner EXCEPT
                       !.todo = left,
                       !.pc = IF left = <<>> THEN "done" ELSE "loop",
                       !.failed = IF Raised(last'.outcome)
                                  THEN @ \cup {Head(runner.todo)} ELSE @]
    /\ UNCHANGED <<chapters, chapVars, disc, wx>>

\* the command is over
RunnerExit ==
    /\ runner.pc = "done"
    /\ runner' = IdleRunner
    /\ last' = NoLast
    /\ UNCHANGED <<websites, novels, genres, novel_genres, chapters, chapVars, disc, wx>>

\* ------------------------------------------------------------------ Spec

\* Chapter reconciliation of one novel, called directly or by the batch.
Next ==
    \/ \E outcome \in {"ok", "fetch_error", "parse_error"}, S \in SUBSET OneNovel :
          \E order \in Perms(S) : Discover(outcome, order)
    \/ UpdateAllStart
    \/ \E url \in NovelUrls, times \in 1..2 : DirectCall(url, times)
    \/ \E list \in ChapterLists : PassStart(list)
    \/ PassListRaises
    \/ \E outcome \in {FetchOk, FetchFailed, FetchRaised} : ChapterStep(outcome)
    \/ CallerNext

Spec == Init /\ [][Next]_vars

\* update_all_novels over a table of up to two novels.
NextBatch ==
    \/ \E outcome \in {"ok", "fetch_error", "parse_error"}, S \in SUBSET NovelUrls :
          \E order \in Perms(S) : Discover(outcome, order)
    \/ UpdateAllStart
    \/ \E list \in BatchLists : PassStart(list)
    \/ PassListRaises
    \/ \E outcome \in {FetchOk, FetchRaised} : ChapterStep(outcome)
    \/ CallerNext

SpecBatch == Init /\ [][NextBatch]_vars

\* One novel: discovery, save_genres_to_db and the scrape-details command
\* with every genre input.
NextDetails ==
    \/ \E outcome \in {"ok", "fetch_error", "parse_error"}, S \in SUBSET OneNovel :
          \E order \in Perms(S) : Discover(outcome, order)
    \/ \E names \in GenreLists : SaveGenres(names)
    \/ \E url \in OneNovel : RunSingle(url)
    \/ \E mode \in {"all", "range"}, from \in 1..Cardinality(OneNovel),
          upto \in 1..Cardinality(OneNovel) + 1 : RunMany(mode, from, upto)
    \/ \E raised \in BOOLEAN, a \in Authors \cup {None},
          r \in RatingTexts \cup {<<>>}, g \in GenreStrings \cup {<<>>},
          page \in GenreItems :
          /\ raised => a = None /\ r = <<>> /\ g = <<>> /\ page = NoGenreItem
          /\ page.links # <<>> => g = <<>>
          /\ RunnerStep(raised, DetailsDict(a, r, g), page)
    \/ RunnerExit

SpecDetails == Init /\ [][NextDetails]_vars

\* Up to two novels: discovery and the scrape-details command in its three
\* modes, on pages without genres.
NextRunner ==
    \/ \E outcome \in {"ok", "fetch_error", "parse_error"}, S \in SUBSET NovelUrls :
          \E order \in Perms(S) : Discover(outcome, order)
    \/ \E url \in NovelUrls : RunSingle(url)
    \/ \E mode \in {"all", "range"}, from \in 1..Cardinality(NovelUrls),
          upto \in 1..Cardinality(NovelUrls) + 1 : RunMany(mode, from, upto)
    \/ \E raised \in BOOLEAN, a \in Authors \cup {None}, r \in RatingTexts \cup {<<>>},
          c \in Statuses \cup {None} :
          /\ raised => a = None /\ r = <<>> /\ c = None
          /\ RunnerStep(raised, DetailsWithStatus(a, r, <<>>, c), NoGenreItem)
    \/ RunnerExit

SpecRunner == Init /\ [][NextRunner]_vars

\* The commands side by side on one novel: the sitemap command in its two
\* steps, the scrape-details command, update_all_novels and save_genres_to_db.
NextCommands ==
    \/ \E outcome \in {"ok", "fetch_error", "parse_error"}, S \in SUBSET OneNovel :
          \E order \in Perms(S) : DiscoverBegin(outcome, order)
    \/ DiscoverCommit
    \/ DiscoverExit
    \/ \E outcome \in {"ok", "fetch_error", "parse_error"},
          names \in {<<>>, <<"fantasy">>} : ListGenres(outcome, names)
    \/ SaveGenres(<<<<"F">>>>)
    \/ \E url \in OneNovel : RunSingle(url)
    \/ RunMany("all", 1, Len(novels))
    \/ \E raised \in BOOLEAN, a \in Authors \cup {None}, r \in RatingTexts \cup {<<>>} :
          /\ raised => a = None /\ r = <<>>
          /\ RunnerStep(raised, DetailsDict(a, r, <<>>), NoGenreItem)
    \/ RunnerExit
    \/ UpdateAllStart
    \/ \E list \in BatchLists : PassStart(list)
    \/ PassListRaises
    \/ \E outcome \in {FetchOk, FetchRaised} : ChapterStep(outcome)
    \/ CallerNext

SpecCommands == Init /\ [][NextCommands]_vars

\* --------------------------------------------- chapter reconciliation

\* the novel of the running or finished pass
PassHasNovel == cp.novel_id \in DOMAIN novels
PassNovel == novels[cp.novel_id]

\* the chapter numbers stored for the novel of the pass
StoredNumbers ==
    {chapters[i].chapter_number :
        i \in {j \in DOMAIN chapters : chapters[j].novel_id = cp.novel_id}}

\* the chapter numbers parsed from a scraped list
ParsedNumbers(list) ==
    {ChapterNumberOf(list[k]) : k \in DOMAIN list} \ {NoNumber}

MaxOf(S) == CHOOSE n \in S : \A m \in S : n >= m

\* the records of the scraped list the loop is through with
Processed == SubSeq(obs.list, 1, Len(obs.list) - Len(cp.rest))

\* C1: when a pass has returned (every content fetch of it succeeded), the
\* novel's current_last_chapter_number is the maximum chapter_number of the
\* Chapter rows stored for the novel.
C1_CounterIsMaxStored ==
    (cp.pc = "returned" /\ PassHasNovel /\ obs.clean /\ StoredNumbers # {}) =>
        PassNovel.current_last_chapter_number = MaxOf(StoredNumbers)

\* C2: a second pass with the same scraped list for the same novel ends with
\* the novel's chapter row count and current_last_chapter_number as they
\* were when it started.
C2_SecondPassChangesNothing ==
    (cp.pc \in {"returned", "raised"} /\ PassHasNovel /\ obs.repeat) =>
        /\ RowsOf(chapters, cp.novel_id) = obs.rows0
        /\ PassNovel.current_last_chapter_number = obs.last0

\* C3: when a pass has returned, the novel's latest_chapter_number is the
\* maximum of the chapter numbers parsed from the scraped list.
C3_LatestIsMaxOfList ==
    (cp.pc = "returned" /\ PassHasNovel /\ obs.clean
        /\ ParsedNumbers(obs.list) # {}) =>
        PassNovel.latest_chapter_number = MaxOf(ParsedNumbers(obs.list))

\* C4: no two stored Chapter rows have the same url; a stored row never
\* changes; and a record whose URL is stored adds no row.
C4_NoTwoRowsOneUrl ==
    \A i, j \in DOMAIN chapters : chapters[i].url = chapters[j].url => i = j

C4_StoredRowsStay ==
    /\ \A i \in DOMAIN chapters :
          i \in DOMAIN chapters' /\ chapters'[i] = chapters[i]
    /\ (cp.pc = "loop" /\ \E i \in DOMAIN chapters :
                            chapters[i].url = ChapterUrlOf(Head(cp.rest))) =>
          chapters' = chapters

C4_ChapterIdentityIsUrl == []C4_NoTwoRowsOneUrl /\ [][C4_StoredRowsStay]_vars

\* C4 witness: the loop is through with a numbered record whose URL is stored
\* under another title.
C4_Witness ==
    /\ cp.pc \in {"loop", "returned"}
    /\ \E k \in DOMAIN Processed : \E i \in DOMAIN chapters :
          /\ ChapterNumberOf(Processed[k]) # NoNumber
          /\ chapters[i].url = ChapterUrlOf(Processed[k])
          /\ chapters[i].title # ChapterTitleOf(Processed[k])

\* C5: an iteration in which the content fetch of a new chapter fails goes on
\* to the next record and stores no row.
C5_FailedFetchStep ==
    (cp.pc = "loop" /\ obs'.fetch \in {FetchFailed, FetchRaised}) =>
        /\ cp'.pc \in {"loop", "returned"}
        /\ cp'.rest = Tail(cp.rest)
        /\ chapters' = chapters

C5_FetchFailureIsolated == [][C5_FailedFetchStep]_vars

\* C7: the loop of update_all_novels ends only after the call for the last
\* novel of the table.
C7_LoopEndsAfterLastNovel ==
    (caller.kind = "update_all" /\ caller.pc = "loop" /\ caller'.pc # "loop") =>
        Len(caller.todo) = 1

C7_BatchAlwaysCompletes == [][C7_LoopEndsAfterLastNovel]_vars

\* ------------------------------------------------ the scrape-details loop

\* the stored novel rows with a source_url
StoredAt(url) == {i \in DOMAIN novels : novels[i].source_url = url}

\* C6: in the --all and --start-id loops every call is for the next selected
\* novel, the loop goes on with the rest whether the call raised or not, and a
\* call that raised leaves every committed novel, genre, association and
\* chapter row as it was.
C6_Start ==
    (runner.pc = "idle" /\ runner'.pc = "loop" /\ runner'.mode = "all") =>
        runner'.todo = [i \in DOMAIN novels |-> novels[i].source_url]

C6_Attempt ==
    (runner.pc = "loop" /\ runner.mode \in {"all", "range"}) =>
        /\ last'.url = Head(runner.todo)
        /\ runner'.todo = Tail(runner.todo)
        /\ (runner'.pc = "done") = (Tail(runner.todo) = <<>>)
        /\ Raised(last'.outcome) =>
              /\ runner'.failed = runner.failed \cup {Head(runner.todo)}
              /\ novels' = novels /\ genres' = genres
              /\ novel_genres' = novel_genres /\ chapters' = chapters

C6_FailureIsolated == [][C6_Start /\ C6_Attempt]_vars

\* C6 witness: in a loop, a novel was scraped and committed after the call for
\* an earlier novel raised.
C6_Witness ==
    /\ runner.mode \in {"all", "range"}
    /\ runner.failed # {}
    /\ last.outcome = "committed"
    /\ last.url \notin runner.failed

\* C8: at most one Website row is named NovLove and no two Novel rows share a
\* source_url; a stored row keeps its source_url; and a call that resolves a
\* stored source_url gets that row and adds neither a Novel nor a Website row.
C8_OneRowPerKey ==
    /\ Cardinality({i \in DOMAIN websites : websites[i].name = "NovLove"}) <= 1
    /\ \A i, j \in DOMAIN novels :
          novels[i].source_url = novels[j].source_url => i = j

C8_Resolve ==
    /\ \A i \in DOMAIN novels :
          i \in DOMAIN novels' /\ novels'[i].source_url = novels[i].source_url
    /\ (runner.pc = "loop" /\ last'.outcome # "fetch_raised"
          /\ StoredAt(Head(runner.todo)) # {}) =>
            /\ last'.novel_id \in StoredAt(Head(runner.todo))
            /\ Len(novels') = Len(novels)
            /\ websites' = websites
    /\ (runner.pc = "loop" /\ last'.outcome = "committed") =>
            /\ last'.novel_id \in DOMAIN novels'
            /\ novels'[last'.novel_id].source_url = Head(runner.todo)

C8_NaturalKeys == []C8_OneRowPerKey /\ [][C8_Resolve]_vars

\* C8 witness: a call resolved a source_url that was stored before it, and
\* committed nothing.
C8_Witness ==
    /\ last.outcome = "dropped"
    /\ last.novel_id \in DOMAIN novels
    /\ novels[last.novel_id].source_url = last.url
    /\ Len(websites) = 1

\* ------------------------------------------------------- genre handling

\* the names, in lower case, of the genres a novel is associated with
LinkedNames(gs, ng, nid) == {PyLower(gs[g].name) : g \in GenresOf(ng, nid)}

\* the names of a scraped list, in lower case
ListedNames(names) == {PyLower(n) : n \in names}

\* C9 as stated: after a call that had a non-empty genre list and committed,
\* the novel's associations are exactly the genres named in the list.
C9_ExactlyTheList ==
    (runner.pc = "loop" /\ last'.outcome = "committed" /\ last'.names # {}) =>
        LinkedNames(genres', novel_genres', last'.novel_id) = ListedNames(last'.names)

C9_AssociationsAreTheList == [][C9_ExactlyTheList]_vars

\* C9 amended: a call removes no association; one that had a non-empty genre
\* list and committed leaves the novel with the associations it had plus one
\* for each listed name, to a genre of that name ignoring case; a call that
\* did not commit leaves the associations as they were.
C9_OnlyAdds ==
    runner.pc = "loop" =>
        /\ novel_genres \subseteq novel_genres'
        /\ \A p \in novel_genres' \ novel_genres :
              /\ p[1] = last'.novel_id
              /\ PyLower(genres'[p[2]].name) \in ListedNames(last'.names)
        /\ last'.outcome = "committed" =>
              ListedNames(last'.names) \subseteq
                  LinkedNames(genres', novel_genres', last'.novel_id)
        /\ last'.outcome # "committed" => novel_genres' = novel_genres

C9_AssociationsOnlyGrow == [][C9_OnlyAdds]_vars

\* C9 witness: a call with a non-empty genre list committed, and the novel
\* still has an association to a genre the list does not name.
C9_Witness ==
    /\ last.outcome = "committed"
    /\ last.names # {}
    /\ LinkedNames(genres, novel_genres, last.novel_id) \ ListedNames(last.names) # {}

\* C10: no two Genre rows have names that are equal ignoring case, and no
\* novel is associated with two such rows.
C10_GenreIdentityIgnoresCase ==
    /\ \A i, j \in DOMAIN genres :
          PyLower(genres[i].name) = PyLower(genres[j].name) => i = j
    /\ \A p, q \in novel_genres :
          (p[1] = q[1] /\ PyLower(genres[p[2]].name) = PyLower(genres[q[2]].name))
              => p = q

\* C11: a call whose genre list is empty (no genre field, an empty one, or a
\* text that holds no name) leaves every genre association as it was.
C11_EmptyList ==
    (runner.pc = "loop" /\ last'.names = {}) => novel_genres' = novel_genres

C11_EmptyListKeepsAssociations == [][C11_EmptyList]_vars

\* C11 witness: a call with an empty genre list committed for a novel that
\* has genre associations.
C11_Witness ==
    /\ last.outcome = "committed"
    /\ last.names = {}
    /\ GenresOf(novel_genres, last.novel_id) # {}

\* C12 as stated: after a call that found the page's genre item with no
\* genre in it and committed, the novel has no genre association.
C12_ConfirmedEmpty ==
    (runner.pc = "loop" /\ last'.outcome = "committed"
        /\ last'.found /\ last'.names = {}) =>
        GenresOf(novel_genres', last'.novel_id) = {}

C12_ConfirmedEmptyListClears == [][C12_ConfirmedEmpty]_vars

\* C12 amended: a call that found the page's genre item with no genre in it
\* and got no name from the extracted text either leaves the novel with the
\* genres it had, as a call without the item does.
C12_ConfirmedEmptyKept ==
    (runner.pc = "loop" /\ last'.found /\ last'.names = {}
        /\ last'.novel_id \in DOMAIN novels) =>
        GenresOf(novel_genres', last'.novel_id) = GenresOf(novel_genres, last'.novel_id)

C12_ConfirmedEmptyListKeeps == [][C12_ConfirmedEmptyKept]_vars

\* C12 witness: such a call committed for a novel that has genre associations.
C12_Witness ==
    /\ last.outcome = "committed"
    /\ last.found /\ last.names = {}
    /\ GenresOf(novel_genres, last.novel_id) # {}

\* ------------------------------------- reruns, transactions, odd records

\* the records of a list that have a URL and a number
Identifiable(list) ==
    {k \in DOMAIN list :
        ChapterUrlOf(list[k]) # None /\ ChapterNumberOf(list[k]) # NoNumber}

\* C14: when a pass that repeats the list of the pass before it is over and
\* every content fetch of it succeeded, every record of the list that has a
\* URL and a number is stored with its content.
C14_RerunStoresEveryChapter ==
    (cp.pc \in {"returned", "raised"} /\ PassHasNovel /\ obs.again /\ obs.clean) =>
        \A k \in Identifiable(obs.list) : \E i \in DOMAIN chapters :
            /\ chapters[i].url = ChapterUrlOf(obs.list[k])
            /\ chapters[i].content = ContentText

\* the chapter numbers stored for a novel
NumbersOf(nid) ==
    {chapters[i].chapter_number :
        i \in {j \in DOMAIN chapters : chapters[j].novel_id = nid}} \ {NoNumber}

\* C15: in every committed state, each novel's current_last_chapter_number
\* is the maximum chapter_number of its stored chapters, and while a pass is
\* in its loop none of its new chapters is visible.
C15_OneTransaction ==
    /\ \A n \in DOMAIN novels :
          novels[n].current_last_chapter_number =
              (IF NumbersOf(n) = {} THEN 0 ELSE MaxOf(NumbersOf(n)))
    /\ (cp.pc = "loop" /\ PassHasNovel) => RowsOf(chapters, cp.novel_id) = obs.rows0

\* the text of a record's chapter_number holds no digit
NoDigit(rec) ==
    LET text == Get(rec, "chapter_number", <<>>)
    IN \A i \in DOMAIN text :
          text[i] \notin {"0", "1", "2", "3", "4", "5", "6", "7", "8", "9"}

\* the URL is stored
UrlStored(chs, url) == \E i \in DOMAIN chs : chs[i].url = url

\* C18 as stated: a record with a URL that is not stored and a number text
\* without digits is stored, with no chapter_number.
C18_StoredUnnumbered ==
    (cp.pc = "loop" /\ NoDigit(Head(cp.rest))
        /\ ChapterUrlOf(Head(cp.rest)) # None
        /\ ~UrlStored(chapters, ChapterUrlOf(Head(cp.rest)))) =>
        \E i \in DOMAIN chapters' :
            /\ chapters'[i].url = ChapterUrlOf(Head(cp.rest))
            /\ chapters'[i].chapter_number = NoNumber

C18_UnnumberedRecordStored == [][C18_StoredUnnumbered]_vars

\* C18 amended: a record whose number text holds no digit is skipped: no row
\* is stored and no content fetched for it, the running maximum and the
\* novel's counters stay as they are, and the loop goes on.
C18_SkippedUnnumbered ==
    (cp.pc = "loop" /\ NoDigit(Head(cp.rest))) =>
        /\ chapters' = chapters
        /\ novels' = novels
        /\ obs'.fetch = "none"
        /\ cp'.latest = cp.latest
        /\ cp'.pc \in {"loop", "returned"}
        /\ cp'.rest = Tail(cp.rest)

C18_UnnumberedRecordSkipped == [][C18_SkippedUnnumbered]_vars

\* C18 witness: the loop is through with a record that has a URL which is not
\* stored and a number text without digits.
C18_Witness ==
    /\ cp.pc \in {"loop", "returned"}
    /\ \E k \in DOMAIN Processed :
          /\ NoDigit(Processed[k])
          /\ ChapterUrlOf(Processed[k]) # None
          /\ ~UrlStored(chapters, ChapterUrlOf(Processed[k]))

\* C19: the iteration of a record without a URL stores no row, attempts no
\* content fetch, and leaves the pass as if the record had not been there.
C19_DroppedUrlLess ==
    (cp.pc = "loop" /\ ChapterUrlOf(Head(cp.rest)) = None) =>
        /\ chapters' = chapters
        /\ obs'.fetch = "none"
        /\ cp'.pc \in {"loop", "returned"}
        /\ cp'.attached = cp.attached
        /\ cp'.latest = cp.latest
        /\ cp'.new_count = cp.new_count

C19_UrlLessRecordDropped == [][C19_DroppedUrlLess]_vars

\* C20: a call that returns normally leaves a Novel row with its source_url
\* in the store.
C20_ResolvedIsStored ==
    (runner.pc = "loop" /\ ~Raised(last'.outcome)) =>
        \E i \in DOMAIN novels' : novels'[i].source_url = Head(runner.todo)

C20_ResolvedNovelIsCommitted == [][C20_ResolvedIsStored]_vars

\* ------------------------------------------------- commands side by side

\* C13 as stated: when a call of the scrape-details command has returned,
\* the chapter reconciliation of that novel is under way.
C13_ChaptersFollow ==
    (runner.pc = "loop" /\ last'.url = Head(runner.todo)
        /\ ~Raised(last'.outcome)) =>
        /\ caller'.pc = "loop"
        /\ Head(caller'.todo) = Head(runner.todo)

C13_DetailsOnly ==
    runner.pc = "loop" =>
        /\ caller' = caller /\ cp' = cp
        /\ chapters' = chapters
        /\ \A i \in DOMAIN novels :
              /\ novels'[i].latest_chapter_number = novels[i].latest_chapter_number
              /\ novels'[i].current_last_chapter_number =
                    novels[i].current_last_chapter_number

C16_ConflictRecovered ==
    /\ disc.outcome # "integrity_error"
    /\ \A i, j \in DOMAIN websites : websites[i].name = websites[j].name => i = j
    /\ \A i, j \in DOMAIN novels :
          novels[i].source_url = novels[j].source_url => i = j

\* C17: a sitemap command whose fetch or parse fails returns with an empty
\* candidate set, nothing left to commit, and every Novel, Genre and Chapter
\* row and every genre association as it was.
C17_FailedSitemap ==
    (disc.pc = "idle" /\ disc'.outcome \in {"fetch_error", "parse_error"}) =>
        /\ disc'.pc = "done"
        /\ disc'.result = {}
        /\ disc'.pending = <<>>
        /\ novels' = novels /\ genres' = genres
        /\ novel_genres' = novel_genres /\ chapters' = chapters

C17_SitemapFailureIsHarmless == [][C17_FailedSitemap]_vars

\* C17 witness: a sitemap command is over after a failed fetch or parse, and
\* the store holds a novel, a genre and a chapter.
C17_Witness ==
    /\ disc.pc = "done"
    /\ disc.outcome \in {"fetch_error", "parse_error"}
    /\ novels # <<>> /\ genres # <<>> /\ chapters # <<>>

\* ------------------------------------------- failures inside a call

\* the iteration at hand adds a chapter without URL to an open session and
\* its content fetch returns: the commit fails on url's NOT NULL constraint
CommitFails ==
    /\ cp.pc = "loop" /\ cp.attached
    /\ ChapterUrlOf(Head(cp.rest)) = None
    /\ ~NoDigit(Head(cp.rest))
    /\ obs'.fetch = FetchFailed

\* C21 as stated: a failed commit stores nothing, changes no counter and
\* ends the call with the exception.
C21_Surfaced ==
    CommitFails =>
        /\ chapters' = chapters /\ novels' = novels
        /\ cp'.pc = "raised"

C21_FailedCommitSurfaced == [][C21_Surfaced]_vars

\* C21 amended: a failed commit in scrape_chapter_list_and_content stores
\* nothing and changes no counter, and is caught inside the call: the loop
\* goes on with the next record, or the call returns.
C21_Swallowed ==
    CommitFails =>
        /\ chapters' = chapters /\ novels' = novels
        /\ cp'.pc \in {"loop", "returned"}
        /\ cp'.rest = Tail(cp.rest)

C21_FailedCommitCaughtInside == [][C21_Swallowed]_vars

\* C21 witness: the loop is through with a first record that has a number
\* and no URL, with nothing stored for it.
C21_Witness ==
    /\ cp.pc \in {"loop", "returned"}
    /\ Len(Processed) >= 1
    /\ ChapterUrlOf(Processed[1]) = None
    /\ ~NoDigit(Processed[1])
    /\ obs.rows0 = RowsOf(chapters, cp.novel_id)

\* C22: no call of the detail scrape ends in the conversion of the rating.
C22_NoFloatError ==
    runner.pc = "loop" => last'.outcome # "float_error"

C22_RatingNeverFails == [][C22_NoFloatError]_vars

\* C25: a call for a source_url no Novel row has is over at once, with no
\* Novel and no Chapter row added or changed, and the loop over the records,
\* where content is fetched, is only ever run for a stored novel.
C25_Unresolved ==
    (caller.pc = "loop" /\ cp.pc = "idle" /\ StoredAt(Head(caller.todo)) = {}) =>
        /\ cp'.pc \in {"returned", "raised"}
        /\ novels' = novels /\ chapters' = chapters

C25_InLoopIsResolved ==
    cp.pc = "loop" => StoredAt(obs.url) # {} /\ cp.novel_id \in StoredAt(obs.url)

C25_NoPassWithoutNovel == []C25_InLoopIsResolved /\ [][C25_Unresolved]_vars

\* C25 witness: a call with a scraped list has returned for a source_url that
\* is not stored, while another novel is.
C25_Witness ==
    /\ cp.pc = "returned"
    /\ obs.list # <<>>
    /\ StoredAt(obs.url) = {}
    /\ novels # <<>>

\* ------------------------------------------- the counter over passes

\* C23: in a pass whose list holds every record of the list of the pass
\* before it for the same novel, no step lowers latest_chapter_number.
C23_NoDecrease ==
    (cp.pc = "loop" /\ obs.grown) =>
        novels'[cp.novel_id].latest_chapter_number
            >= novels[cp.novel_id].latest_chapter_number

C23_LatestNeverDecreases == [][C23_NoDecrease]_vars

\* ------------------------------------------- what a detail scrape keeps

\* C24: a detail scrape of a stored novel leaves each of author,
\* is_completed and avg_rating as it was when the extraction has no value
\* for it.
C24_Kept ==
    \A a \in Authors \cup {None}, r \in RatingTexts \cup {<<>>},
       c \in Statuses \cup {None} :
        LET det == DetailsWithStatus(a, r, <<>>, c)
        IN RunnerStep(FALSE, det, NoGenreItem) =>
               \A i \in StoredAt(Head(runner.todo)) :
                   \A f \in {"author", "is_completed", "avg_rating"} \ DOMAIN det :
                       novels'[i][f] = novels[i][f]

C24_UnextractedFieldsKept == [][C24_Kept]_vars

\* ------------------------------------------- wuxiaworld_scraper.py

\* Scrolls of one run the model draws, of the range(100000) of the code.
MaxScrolls == 2

BASE_URL_WUXIAWORLD == <<"https://www.wuxiaworld.com">>

\* a link, by its path segments: "" is the empty one
Links ==
    {<<>>, <<"novel", "a">>, <<"novel", "b">>, <<"novel", "c">>, <<"genre", "a">>}

\* an extracted item: a dict with or without the key "link"
Items == {[link |-> l] : l \in Links} \cup {<<>>}

ItemLists == UNION {[1..n -> Items] : n \in 0..MaxLen}

\* link and link.startswith("/novel/")
StartsWithNovel(link) == link # <<>> /\ link[1] = "novel"

\* Variant of InsertNovelUrl: the row is added whether the url is stored or not.
InsertNovelUrlAgain(table, url, source) ==
    Append(table, [url |-> url, source |-> source])

\* INSERT OR IGNORE INTO novel (url, source): a url the table has is ignored
InsertNovelUrl(table, url, source) ==
    IF \E i \in DOMAIN table : table[i].url = url
    THEN table
    ELSE Append(table, [url |-> url, source |-> source])

RECURSIVE InsertLinks(_, _)
\* for novel in novels_list: ... insert_novel_url(full_url, "wuxiaworld"); print
InsertLinks(w, list) ==
    IF list = <<>> THEN w
    ELSE LET link == Get(Head(list), "link", <<>>)
             full_url == BASE_URL_WUXIAWORLD \o link
             w1 == IF StartsWithNovel(link) /\ link \notin w.seen_urls
                   THEN [w EXCEPT !.seen_urls = @ \cup {link},
                                  !.table = InsertNovelUrl(@, full_url, "wuxiaworld"),
                                  !.printed = Append(@, full_url)]
                   ELSE w
         IN InsertLinks(w1, Tail(list))

\* init_db(); scrape_wuxiaworld_novels() up to the first scroll
WuxiaStart(success, list) ==
    /\ wx.pc = "idle"
    /\ LET run == [wx EXCEPT !.seen_urls = {}, !.printed = <<>>, !.scrolls = 0]
       IN wx' = IF ~success THEN run
                ELSE [InsertLinks(run, list) EXCEPT !.pc = "scroll"]
    /\ UNCHANGED <<websites, novels, genres, novel_genres, chapters, chapVars, detVars, disc>>

\* one turn of the loop of scrolls
WuxiaScroll(success, list) ==
    /\ wx.pc = "scroll" /\ wx.scrolls < MaxScrolls
    /\ wx' = IF ~success THEN [wx EXCEPT !.pc = "idle"]
             ELSE [InsertLinks(wx, list) EXCEPT !.scrolls = @ + 1]
    /\ UNCHANGED <<websites, novels, genres, novel_genres, chapters, chapVars, detVars, disc>>

\* the range is exhausted
WuxiaDone ==
    /\ wx.pc = "scroll" /\ wx.scrolls = MaxScrolls
    /\ wx' = [wx EXCEPT !.pc = "idle"]
    /\ UNCHANGED <<websites, novels, genres, novel_genres, chapters, chapVars, detVars, disc>>

NextWuxia ==
    \/ \E success \in BOOLEAN, list \in ItemLists :
          /\ ~success => list = <<>>
          /\ WuxiaStart(success, list)
    \/ \E success \in BOOLEAN, list \in ItemLists :
          /\ ~success => list = <<>>
          /\ WuxiaScroll(success, list)
    \/ WuxiaDone

SpecWuxia == Init /\ [][NextWuxia]_vars

\* C26: table novel holds one row for every url handed to insert_novel_url
\* and never two rows of one url, inserting a url once more changes nothing,
\* and one run hands each url to insert_novel_url at most once, for a link
\* under /novel/.
C26_InsertIsIdempotent ==
    /\ \A i, j \in DOMAIN wx.table : wx.table[i].url = wx.table[j].url => i = j
    /\ \A k \in DOMAIN wx.printed : \E i \in DOMAIN wx.table : wx.table[i].url = wx.printed[k]
    /\ \A l \in Links :
          LET once == InsertNovelUrl(wx.table, BASE_URL_WUXIAWORLD \o l, "wuxiaworld")
          IN /\ InsertNovelUrl(once, BASE_URL_WUXIAWORLD \o l, "wuxiaworld") = once
             /\ \E i \in DOMAIN once : once[i].url = BASE_URL_WUXIAWORLD \o l
    /\ \A k, m \in DOMAIN wx.printed : wx.printed[k] = wx.printed[m] => k = m
    /\ \A k \in DOMAIN wx.printed : StartsWithNovel(Tail(wx.printed[k]))

\* C26 witness: the one url the run under way has handed to insert_novel_url
\* is that of the first of two rows, stored by a run before it.
C26_Witness ==
    /\ wx.pc = "scroll"
    /\ Len(wx.table) = 2
    /\ Len(wx.printed) = 1
    /\ wx.printed[1] = wx.table[1].url

====
